---- MODULE Spec2Model ----
(***************************************************************************)
(* Model of lib/main/lang/programManager.ts: the process-wide cache of     *)
(* Programs (one per project root), the fixed-point expansion of a         *)
(* project's file list over references and relative imports, the initial   *)
(* emit pass, emitFile, formatCode and the diagnostics queries.            *)
(*                                                                         *)
(* A file path is a record [dir, name]: dir is the sequence of directory   *)
(* names from the file-system root, name the base name split at its dots   *)
(* (<<"c","d","ts">> is "c.d.ts").  A file name written inside a source    *)
(* file (a reference path or an import's module name) is a record          *)
(* [segs, name]: segs the directory segments as written ("." and ".."      *)
(* included), name the last segment split at its dots.                     *)
(***************************************************************************)
EXTENDS Integers, Sequences, FiniteSets, TLC

VARIABLES
    content,    \* file system: the preprocessed text of every file on disk
    manifest,   \* file system: the project manifest, or NoManifest
    programs,   \* var programs: { [projectDir: string]: Program }
    created,    \* number of Program constructors that have returned
    pc,         \* position of the (single) thread of control
    call,       \* the exported function being executed and its argument
    cur,        \* the Program whose constructor is running
    requests,   \* diagnostics requests sent to the language service by this call
    result,     \* what the last finished call returned
    orig,       \* formatCode: the text to format
    changes,    \* formatCode: the edits of the language service
    formatted   \* formatCode: the value returned

vars == <<content, manifest, programs, created, pc, call, cur, requests,
          result, orig, changes, formatted>>

envVars == <<content, manifest>>
fmtVars == <<orig, changes, formatted>>

-----------------------------------------------------------------------------
(* Bounds *)

MaxDiags == 1       \* diagnostics the language service reports per request
MaxPrograms == 3    \* Program constructors that may return
MaxLen == 4         \* length of the text given to formatCode
MaxEdits == 2       \* edits given to formatCode

-----------------------------------------------------------------------------
(* Paths *)

Path(d, n) == [dir |-> d, name |-> n]
FileName(s, n) == [segs |-> s, name |-> n]

A  == Path(<<"p">>, <<"a", "ts">>)           \* /p/a.ts
B  == Path(<<"p">>, <<"b", "ts">>)           \* /p/b.ts
SA == Path(<<"p", "sub">>, <<"a", "ts">>)    \* /p/sub/a.ts
D  == Path(<<"p">>, <<"c", "d", "ts">>)      \* /p/c.d.ts

\* The files that exist; fs.readFileSync throws on any other path.
Disk == {A, B, SA, D}

\* path.dirname
dirname(file) == file.dir

\* path.basename
basename(file) == file.name

\* path.extname: the base name from its LAST dot on, "" if it has none.
\* The result is given without its leading dot, split at dots like a name.
extname(file) ==
    IF Len(file.name) >= 2 THEN <<file.name[Len(file.name)]>> ELSE <<>>

RECURSIVE Normalize(_, _)
Normalize(acc, segs) ==
    IF segs = <<>> THEN acc
    ELSE LET s == Head(segs) IN
         IF s = "." THEN Normalize(acc, Tail(segs))
         ELSE IF s = ".."
              THEN Normalize(IF acc = <<>> THEN acc
                             ELSE SubSeq(acc, 1, Len(acc) - 1), Tail(segs))
              ELSE Normalize(Append(acc, s), Tail(segs))

\* utils.pathResolve(dir, filename)
pathResolve(dir, filename) ==
    Path(Normalize(dir, filename.segs), filename.name)

\* utils.pathIsRelative(filename): the name starts with "./" or "../"
pathIsRelative(filename) ==
    /\ filename.segs # <<>>
    /\ filename.segs[1] \in {".", ".."}

\* fileReference.filename + '.ts'
WithTs(filename) == FileName(filename.segs, Append(filename.name, "ts"))

\* utils.selectMany: flattens a list of lists
RECURSIVE selectMany(_)
selectMany(lists) ==
    IF lists = <<>> THEN <<>> ELSE Head(lists) \o selectMany(Tail(lists))

Range(s) == {s[i] : i \in 1..Len(s)}

-----------------------------------------------------------------------------
(* The file system a run starts from *)

NoContent == [referencedFiles |-> <<>>, importedFiles |-> <<>>]

\* What ts.preProcessFile finds in a file: its /// <reference path> names and
\* the module names of its imports.
ContentMenu ==
    { NoContent,
      \* /// <reference path="sub/a.ts"/>  and  import b = require('b')
      [referencedFiles |-> <<FileName(<<"sub">>, <<"a", "ts">>)>>,
       importedFiles   |-> <<FileName(<<>>, <<"b">>)>>],
      \* /// <reference path="../a.ts"/>  and  import b = require('../b')
      [referencedFiles |-> <<FileName(<<"..">>, <<"a", "ts">>)>>,
       importedFiles   |-> <<FileName(<<"..">>, <<"b">>)>>],
      \* /// <reference path="b.ts"/>,  import fs = require('fs'),
      \* import c = require('./c.d')  and  import d = require('./c.d')
      [referencedFiles |-> <<FileName(<<>>, <<"b", "ts">>)>>,
       importedFiles   |-> <<FileName(<<>>, <<"fs">>),
                             FileName(<<".">>, <<"c", "d">>),
                             FileName(<<".">>, <<"c", "d">>)>>] }

NoManifest == [dir |-> <<>>, files |-> <<>>]

\* A project manifest in /p and the files it lists.
ManifestMenu ==
    { NoManifest,
      [dir |-> <<"p">>, files |-> <<A>>],
      [dir |-> <<"p">>, files |-> <<B, D>>] }

\* The directories a project root can be.
Dirs == {<<"p">>, <<"p", "sub">>}

-----------------------------------------------------------------------------
(* tsconfig: project resolution *)

IsPrefix(s, t) == Len(s) <= Len(t) /\ SubSeq(t, 1, Len(s)) = s

\* tsconfig.getProjectSync finds a manifest in the file's directory or in one
\* of its parents; it throws when there is none.
ProjectFound(fs, filePath) ==
    fs # NoManifest /\ IsPrefix(fs.dir, dirname(filePath))

getProjectSync(fs, filePath) ==
    [projectFileDirectory |-> fs.dir, files |-> fs.files]

\* tsconfig.createProjectRootSync: a project of the one file, rooted in its
\* directory.
createProjectRootSync(filePath) ==
    [projectFileDirectory |-> dirname(filePath), files |-> <<filePath>>]

getOrCreateProject(fs, filePath) ==
    IF ProjectFound(fs, filePath)
    THEN getProjectSync(fs, filePath)
    ELSE createProjectRootSync(filePath)

-----------------------------------------------------------------------------
(* class Program *)

NoProgram ==
    [id |-> 0, dir |-> <<>>, initial |-> <<>>, files |-> <<>>, scripts |-> {},
     scans |-> 0, more |-> <<>>, emitted |-> <<>>]

\* new languageServiceHost.LanguageServiceHost(projectFile): the host starts
\* with the project's files as its scripts.
LanguageServiceHost(projectFile) == Range(projectFile.files)

\* The Program object when its constructor starts.  files is
\* projectFile.project.files, scripts the host's scripts; initial, scans, more
\* and emitted record the constructor's history.
NewProgram(projectFile) ==
    [id |-> 0, dir |-> projectFile.projectFileDirectory,
     initial |-> projectFile.files, files |-> projectFile.files,
     scripts |-> LanguageServiceHost(projectFile),
     scans |-> 0, more |-> <<>>, emitted |-> <<>>]

\* languageServiceHost.hasScript
hasScript(scripts, file) == file \in scripts

\* The files one file names: its references, then its relative imports with
\* '.ts' appended, each resolved against the file's directory.
FilesNamedBy(fsContent, file) ==
    LET info == fsContent[file]
        dir == dirname(file)
        refs == [i \in 1..Len(info.referencedFiles) |->
                    pathResolve(dir, info.referencedFiles[i])]
        rel == SelectSeq(info.importedFiles, pathIsRelative)
        imps == [i \in 1..Len(rel) |-> pathResolve(dir, WithTs(rel[i]))]
    IN refs \o imps

getReferencedOrImportedFiles(fsContent, files) ==
    selectMany([i \in 1..Len(files) |-> FilesNamedBy(fsContent, files[i])])

\* A test that takes every file for a new one.
WillNeedAlways(scripts, file) == TRUE

\* The test of willNeedMoreAnalysis.
WillNeedMoreAnalysis(scripts, file) == ~hasScript(scripts, file)

\* .filter(willNeedMoreAnalysis) over the files a scan found.  st carries the
\* host's scripts, the project's files, the files kept by the filter and
\* whether fs.readFileSync threw.
RECURSIVE FilterMore(_, _)
FilterMore(found, st) ==
    IF found = <<>> \/ st.threw THEN st
    ELSE LET file == Head(found) IN
         IF WillNeedMoreAnalysis(st.scripts, file)
         THEN IF file \in Disk
              THEN FilterMore(Tail(found),
                              [st EXCEPT !.scripts = @ \cup {file},
                                         !.files = Append(@, file),
                                         !.more = Append(@, file)])
              ELSE [st EXCEPT !.threw = TRUE]
         ELSE FilterMore(Tail(found), st)

\* A single scan, never repeated.
ScanOnce(more) == FALSE

\* while (more.length)
ScanAgain(more) == Len(more) > 0

\* The files of the project before the expansion.
InitialFiles(program) == program.initial

\* The files init() emits.
InitFiles(program) == program.files

IsDeclaration(filePath) ==
    /\ Len(filePath.name) >= 3
    /\ filePath.name[Len(filePath.name)] = "ts"
    /\ filePath.name[Len(filePath.name) - 1] = "d"

JsOf(filePath) ==
    Path(filePath.dir,
         Append(SubSeq(filePath.name, 1, Len(filePath.name) - 1), "js"))

\* What services.getEmitOutput can answer for a file.
EmitOutputs(filePath) ==
    IF IsDeclaration(filePath)
    THEN { [emitOutputStatus |-> "Succeeded", outputFiles |-> <<>>],
           [emitOutputStatus |-> "Failed", outputFiles |-> <<>>] }
    ELSE { [emitOutputStatus |-> "Succeeded", outputFiles |-> <<JsOf(filePath)>>],
           [emitOutputStatus |-> "Failed", outputFiles |-> <<JsOf(filePath)>>],
           [emitOutputStatus |-> "Failed", outputFiles |-> <<>>] }

Request(kind, file, site) == [kind |-> kind, file |-> file, site |-> site]

\* The syntactic and semantic diagnostics emitFile asks for when the emit
\* did not succeed.
EmitRequests(filePath, output) ==
    IF output.emitOutputStatus = "Succeeded" THEN <<>>
    ELSE << Request("syntactic", filePath, "emitFile"),
            Request("semantic", filePath, "emitFile") >>

\* The value emitFile returns.
emitFile(filePath, output) ==
    LET success == output.emitOutputStatus = "Succeeded"
        names == output.outputFiles
        outputFiles == IF extname(filePath) = <<"d", "ts">>
                       THEN Append(names, filePath)
                       ELSE names
    IN [outputFiles |-> outputFiles, success |-> success]

-----------------------------------------------------------------------------
(* The exported functions *)

\* A lookup that never finds the Program.
CachedNever(progs, dir) == FALSE

\* if (programs[projectFile.projectFileDirectory])
Cached(progs, dir) == progs[dir] # NoProgram

\* A cache that keeps the Program of a constructor that threw.
CacheKeepsThrown(progs, program) == [progs EXCEPT ![program.dir] = program]

\* The cache after `programs[dir] = new Program(projectFile)` when the
\* constructor threw: the assignment is never reached.
CacheAfterThrow(progs, program) == progs

\* The cache after `programs[dir] = new Program(projectFile)` when the
\* constructor returned.
CacheAfterNew(progs, program) == [progs EXCEPT ![program.dir] = program]

Diagnostic(file, kind) == [file |-> file, kind |-> kind]

\* The files a diagnostic can be attributed to.
DiagFiles == {A, B, SA}

\* What getSyntacticDiagnostics (kind "syntactic") or getSemanticDiagnostics
\* (kind "semantic") can answer.
DiagLists(kind) ==
    UNION { [1..n -> {Diagnostic(f, kind) : f \in DiagFiles}] : n \in 0..MaxDiags }

\* Semantic diagnostics whatever the syntactic ones are.
NeedSemanticAlways(syntactic) == TRUE

\* if (diagnostics.length === 0)
NeedSemantic(syntactic) == Len(syntactic) = 0

\* diagnostics.map(...): the TSError of a diagnostic; kind records which
\* request the diagnostic came from.
TSError(diagnostic) == [filePath |-> diagnostic.file, kind |-> diagnostic.kind]

\* The diagnostics getErrorsForFile goes on with.
Diagnostics(syntactic, semantic) ==
    IF NeedSemantic(syntactic) THEN semantic ELSE syntactic

\* The requests getErrorsForFile sends.
ErrorRequests(filePath, syntactic) ==
    <<Request("syntactic", filePath, "getErrorsForFile")>> \o
    (IF NeedSemantic(syntactic)
     THEN <<Request("semantic", filePath, "getErrorsForFile")>>
     ELSE <<>>)

getErrorsForFile(syntactic, semantic) ==
    LET diagnostics == Diagnostics(syntactic, semantic)
    IN [i \in 1..Len(diagnostics) |-> TSError(diagnostics[i])]

\* The test of the filter of getErrorsForFileFiltered.
SameFile(filePath, error) == basename(error.filePath) = basename(filePath)

getErrorsForFileFiltered(filePath, errors) ==
    SelectSeq(errors, LAMBDA error : SameFile(filePath, error))

NoCall == [op |-> "none", filePath |-> A, dir |-> <<>>]
NoResult == [kind |-> "none"]
Threw(from) == [kind |-> "threw", from |-> from]

Ops == {"getOrCreateProgram", "getErrorsForFile", "getErrorsForFileFiltered"}

\* An exported function is called: getOrCreateProject, then the cache lookup
\* of getOrCreateProgram.
Call(op, filePath) ==
    /\ pc = "idle"
    /\ LET projectFile == getOrCreateProject(manifest, filePath)
           dir == projectFile.projectFileDirectory
       IN /\ call' = [op |-> op, filePath |-> filePath, dir |-> dir]
          /\ IF Cached(programs, dir)
             THEN /\ pc' = "body"
                  /\ cur' = NoProgram
             ELSE /\ created < MaxPrograms
                  /\ pc' = "scan"
                  /\ cur' = NewProgram(projectFile)
    /\ UNCHANGED <<programs, created, requests, result, envVars, fmtVars>>

\* The constructor threw: the exception leaves getOrCreateProgram and its
\* caller.
Throw(from) ==
    /\ pc' = "done"
    /\ result' = Threw(from)
    /\ programs' = CacheAfterThrow(programs, cur)
    /\ cur' = NoProgram

\* One scan of increaseProjectForReferenceAndImports:
\* getReferencedOrImportedFiles(files).filter(willNeedMoreAnalysis)
Scan ==
    /\ pc = "scan"
    /\ LET st == FilterMore(getReferencedOrImportedFiles(content, cur.files),
                            [scripts |-> cur.scripts, files |-> cur.files,
                             more |-> <<>>, threw |-> FALSE])
       IN IF st.threw
          THEN Throw("readFileSync")
          ELSE /\ cur' = [cur EXCEPT !.scripts = st.scripts, !.files = st.files,
                                     !.more = st.more, !.scans = @ + 1]
               /\ pc' = IF ScanAgain(st.more) THEN "scan" ELSE "emit"
               /\ UNCHANGED <<programs, result>>
    /\ UNCHANGED <<created, call, requests, envVars, fmtVars>>

\* init(): emitFile of the next file of the project.
InitEmit ==
    /\ pc = "emit"
    /\ Len(cur.emitted) < Len(InitFiles(cur))
    /\ LET filePath == InitFiles(cur)[Len(cur.emitted) + 1]
       IN \E output \in EmitOutputs(filePath), writeThrows \in BOOLEAN :
            /\ requests' = requests \o EmitRequests(filePath, output)
            /\ IF writeThrows /\ output.outputFiles # <<>>
               THEN Throw("writeFileSync")
               ELSE /\ cur' = [cur EXCEPT !.emitted = Append(@, filePath)]
                    /\ UNCHANGED <<pc, programs, result>>
    /\ UNCHANGED <<created, call, envVars, fmtVars>>

\* The constructor returns and getOrCreateProgram stores the Program.
Store ==
    /\ pc = "emit"
    /\ Len(cur.emitted) >= Len(InitFiles(cur))
    /\ programs' = CacheAfterNew(programs, [cur EXCEPT !.id = created + 1])
    /\ created' = created + 1
    /\ cur' = NoProgram
    /\ pc' = "body"
    /\ UNCHANGED <<call, requests, result, envVars, fmtVars>>

\* getOrCreateProgram returns the cached Program.
ReturnProgram ==
    /\ pc = "body"
    /\ call.op = "getOrCreateProgram"
    /\ result' = [kind |-> "program", program |-> programs[call.dir]]
    /\ pc' = "done"
    /\ UNCHANGED <<programs, created, call, cur, requests, envVars, fmtVars>>

\* The rest of getErrorsForFile (and of getErrorsForFileFiltered) once
\* getOrCreateProgram has returned.  On a file that is no script of the host
\* the language service may throw.
ReturnErrors ==
    /\ pc = "body"
    /\ call.op \in {"getErrorsForFile", "getErrorsForFileFiltered"}
    /\ \E syntactic \in DiagLists("syntactic"),
          serviceThrows \in
            IF hasScript(programs[call.dir].scripts, call.filePath)
            THEN {FALSE} ELSE BOOLEAN :
       \E semantic \in
            IF NeedSemantic(syntactic) THEN DiagLists("semantic") ELSE {<<>>} :
         IF serviceThrows
         THEN /\ result' = Threw("languageService")
              /\ UNCHANGED requests
         ELSE LET errors == getErrorsForFile(syntactic, semantic)
              IN /\ requests' = requests \o ErrorRequests(call.filePath, syntactic)
                 /\ result' =
                      [kind |-> "errors",
                       syntactic |-> syntactic,
                       unfiltered |-> errors,
                       errors |-> IF call.op = "getErrorsForFileFiltered"
                                  THEN getErrorsForFileFiltered(call.filePath, errors)
                                  ELSE errors]
    /\ pc' = "done"
    /\ UNCHANGED <<programs, created, call, cur, envVars, fmtVars>>

\* program.emitFile(filePath) on a cached Program, for one of its scripts.
EmitFile(dir, filePath) ==
    /\ pc = "idle"
    /\ Cached(programs, dir)
    /\ hasScript(programs[dir].scripts, filePath)
    /\ \E output \in EmitOutputs(filePath), writeThrows \in BOOLEAN :
         /\ requests' = EmitRequests(filePath, output)
         /\ result' = IF writeThrows /\ output.outputFiles # <<>>
                      THEN Threw("writeFileSync")
                      ELSE [kind |-> "emit", output |-> output,
                            value |-> emitFile(filePath, output)]
    /\ call' = [op |-> "emitFile", filePath |-> filePath, dir |-> dir]
    /\ pc' = "done"
    /\ UNCHANGED <<programs, created, cur, envVars, fmtVars>>

-----------------------------------------------------------------------------
(* Formatting *)

Min(a, b) == IF a < b THEN a ELSE b
Max(a, b) == IF a > b THEN a ELSE b

\* String.prototype.slice(start, end) on a text given as its characters: a
\* negative index counts from the end, and both are clamped to the text.
slice(text, start, end) ==
    LET len == Len(text)
        from == IF start < 0 THEN Max(len + start, 0) ELSE Min(start, len)
        to == IF end < 0 THEN Max(len + end, 0) ELSE Min(end, len)
    IN IF from >= to THEN <<>> ELSE SubSeq(text, from + 1, to)

\* One turn of the loop of formatCode.
ApplyChange(text, change) ==
    LET head == slice(text, 0, change.start)
        tail == slice(text, change.start + change.length, Len(text))
    IN head \o change.newText \o tail

\* The edits applied from the first to the last.
RECURSIVE ApplyForward(_, _, _)
ApplyForward(text, edits, i) ==
    IF i > Len(edits) THEN text
    ELSE ApplyForward(ApplyChange(text, edits[i]), edits, i + 1)

formatCodeForward(text, edits) == ApplyForward(text, edits, 1)

\* for (var i = changes.length - 1; i >= 0; i--), i counted from 1 here
RECURSIVE ApplyBackward(_, _, _)
ApplyBackward(text, edits, i) ==
    IF i < 1 THEN text
    ELSE ApplyBackward(ApplyChange(text, edits[i]), edits, i - 1)

formatCode(text, edits) == ApplyBackward(text, edits, Len(edits))

\* formatDocument / formatDocumentRange: the edits of the language service
\* applied to the script's content.
formatDocument ==
    /\ pc = "format"
    /\ formatted' = formatCode(orig, changes)
    /\ pc' = "done"
    /\ UNCHANGED <<programs, created, call, cur, requests, result, envVars,
                   orig, changes>>

Letters == <<"a", "b", "c", "d", "e", "f", "g", "h">>

\* The texts formatCode is given: "", "a", "ab", ...
Texts == {SubSeq(Letters, 1, n) : n \in 0..MaxLen}

NewTexts == {<<>>, <<"X">>}

\* The edits whose span lies inside the text.
TextChanges(text) ==
    {c \in [start : 0..Len(text), length : 0..Len(text), newText : NewTexts] :
        c.start + c.length <= Len(text)}

ChangeLists(text) == UNION {[1..n -> TextChanges(text)] : n \in 0..MaxEdits}

InitFormat ==
    /\ content = [f \in Disk |-> NoContent]
    /\ manifest = NoManifest
    /\ programs = [d \in Dirs |-> NoProgram]
    /\ created = 0
    /\ pc = "format"
    /\ call = NoCall
    /\ cur = NoProgram
    /\ requests = <<>>
    /\ result = NoResult
    /\ orig \in Texts
    /\ changes \in ChangeLists(orig)
    /\ formatted = <<>>

NextFormat == formatDocument

SpecFormat == InitFormat /\ [][NextFormat]_vars

-----------------------------------------------------------------------------
(* The program manager *)

\* The call is over: control is back in the caller.
Return ==
    /\ pc = "done"
    /\ pc' = "idle"
    /\ call' = NoCall
    /\ requests' = <<>>
    /\ result' = NoResult
    /\ UNCHANGED <<programs, created, cur, envVars, fmtVars>>

Init ==
    /\ content \in {c \in [Disk -> ContentMenu] : c[D] = NoContent}
    /\ manifest \in ManifestMenu
    /\ programs = [d \in Dirs |-> NoProgram]
    /\ created = 0
    /\ pc = "idle"
    /\ call = NoCall
    /\ cur = NoProgram
    /\ requests = <<>>
    /\ result = NoResult
    /\ orig = <<>>
    /\ changes = <<>>
    /\ formatted = <<>>

Next ==
    \/ \E op \in Ops, filePath \in Disk : Call(op, filePath)
    \/ Scan
    \/ InitEmit
    \/ Store
    \/ ReturnProgram
    \/ ReturnErrors
    \/ \E dir \in Dirs, filePath \in Disk : EmitFile(dir, filePath)
    \/ Return

Spec == Init /\ [][Next]_vars

\* The expansion runs to completion: a scan that is due is made.
SpecFair == Spec /\ WF_vars(Scan)

-----------------------------------------------------------------------------
(* Properties *)

\* The Programs in the cache.
Stored == {programs[d] : d \in Dirs} \ {NoProgram}

\* The Programs whose increaseProjectForReferenceAndImports has returned.
Expanded == Stored \cup (IF pc = "emit" THEN {cur} ELSE {})

\* The Programs whose constructor is running or has returned.
Started == Stored \cup (IF pc \in {"scan", "emit"} THEN {cur} ELSE {})

\* The files reachable from the files S over references and relative imports.
RECURSIVE Closure(_)
Closure(S) ==
    LET N == S \cup UNION {Range(FilesNamedBy(content, f)) : f \in S \cap Disk}
    IN IF N = S THEN S ELSE Closure(N)

Count(seq, x) == Cardinality({i \in 1..Len(seq) : seq[i] = x})

NoDuplicates(seq) == \A i, j \in 1..Len(seq) : seq[i] = seq[j] => i = j

ConstructorThrew ==
    /\ pc = "done"
    /\ call.op \in Ops
    /\ result.kind = "threw"
    /\ result.from \in {"readFileSync", "writeFileSync"}

\* C1: a Program stored for a project root is never replaced or removed, the
\* Programs stored are as many as the constructors that returned and no two
\* roots share one, and getOrCreateProgram returns the Program stored for the
\* root of its file: calls for one root return the identical Program.
C1_CacheIdentity ==
    /\ [][\A d \in Dirs : programs[d] # NoProgram => programs'[d] = programs[d]]_vars
    /\ [](/\ Cardinality(Stored) = created
          /\ \A d, e \in Dirs :
               programs[d] # NoProgram /\ programs[d].id = programs[e].id => d = e
          /\ \A d \in Dirs : programs[d] # NoProgram => programs[d].dir = d
          /\ (pc = "done" /\ result.kind = "program"
                => result.program = programs[call.dir] /\ result.program # NoProgram))

\* getOrCreateProgram answered from the cache, for a file other than the one
\* whose call constructed the Program.
C1_Witness ==
    /\ pc = "done"
    /\ manifest = NoManifest
    /\ result.kind = "program"
    /\ result.program.initial # <<call.filePath>>

\* C2: when increaseProjectForReferenceAndImports has returned, the project's
\* files are the initial files followed by the other files reachable from
\* them over references and relative imports, each once.
C2_Closure ==
    \A program \in Expanded :
        /\ Range(program.files) = Closure(Range(program.initial))
        /\ NoDuplicates(program.files)
        /\ SubSeq(program.files, 1, Len(program.initial)) = program.initial
        /\ Range(program.files) = program.scripts

\* A stored Program that needed three scans: a file found by the second scan
\* is two steps away from the initial files.
C2_Witness ==
    \E program \in Stored :
        /\ program.scans >= 3
        /\ Len(program.files) >= Len(program.initial) + 2

ScanBound ==
    \A program \in Started :
        /\ program.scans <= Cardinality(Closure(Range(program.initial))) + 1
        /\ program.scans <=
             Cardinality(Range(program.files)) - Cardinality(Range(program.initial))
             + (IF pc = "scan" /\ program = cur THEN 0 ELSE 1)
        /\ (pc = "scan" /\ program = cur /\ program.scans > 0 => program.more # <<>>)

\* C3: a scan is repeated only after the scan before it added a file not
\* known before, so the scans are at most the files reachable plus one, and
\* the expansion comes to an end.
C3_Terminates ==
    /\ []ScanBound
    /\ (pc = "scan") ~> (pc # "scan")

\* The expansion is over for a project in which /p/a.ts and /p/sub/a.ts name
\* each other and one file names itself.
C3_Witness ==
    \E program \in Stored :
        /\ {A, SA} \subseteq Range(program.files)
        /\ SA \in Range(FilesNamedBy(content, A))
        /\ A \in Range(FilesNamedBy(content, SA))
        /\ \E f \in Range(program.files) : f \in Range(FilesNamedBy(content, f))
        /\ program.scans >= 2

OwnRequests == SelectSeq(requests, LAMBDA r : r.site = "getErrorsForFile")

ErrorsReturned ==
    /\ pc = "done"
    /\ call.op \in {"getErrorsForFile", "getErrorsForFileFiltered"}
    /\ result.kind = "errors"

\* C4 as claimed: during getErrorsForFile semantic diagnostics of the file
\* are requested from the language service exactly when its syntactic
\* diagnostics are empty.
C4_AsClaimed ==
    ErrorsReturned =>
        ((\E i \in 1..Len(requests) :
             requests[i].kind = "semantic" /\ requests[i].file = call.filePath)
         <=> result.syntactic = <<>>)

\* C4, amended: getErrorsForFile itself requests the file's syntactic
\* diagnostics first and its semantic diagnostics exactly when the syntactic
\* list is empty, and returns only syntactic diagnostics when there is one;
\* every other diagnostics request of the call is one of emitFile, made
\* before, in the initial emit pass of a Program the call constructs.
C4_Tiering ==
    ErrorsReturned =>
        /\ OwnRequests =
             IF result.syntactic = <<>>
             THEN << Request("syntactic", call.filePath, "getErrorsForFile"),
                     Request("semantic", call.filePath, "getErrorsForFile") >>
             ELSE << Request("syntactic", call.filePath, "getErrorsForFile") >>
        /\ (result.syntactic # <<>> =>
              /\ Len(result.unfiltered) = Len(result.syntactic)
              /\ \A i \in 1..Len(result.unfiltered) :
                   result.unfiltered[i] = TSError(result.syntactic[i]))
        /\ \A i \in 1..Len(result.unfiltered) :
             result.unfiltered[i].kind =
               IF result.syntactic = <<>> THEN "semantic" ELSE "syntactic"
        /\ \A i \in 1..Len(requests) :
             /\ requests[i].site \in {"emitFile", "getErrorsForFile"}
             /\ requests[i].site = "emitFile" => i <= Len(requests) - Len(OwnRequests)

\* getErrorsForFile returned the syntactic diagnostics of a file, and did so
\* without a request of its own for semantic diagnostics.
C4_Witness ==
    /\ ErrorsReturned
    /\ result.syntactic # <<>>
    /\ result.errors # <<>>
    /\ Len(requests) > Len(OwnRequests)

\* C5 as claimed: getErrorsForFileFiltered returns exactly the records of
\* getErrorsForFile whose file is the queried file.
C5_AsClaimed ==
    (pc = "done" /\ call.op = "getErrorsForFileFiltered" /\ result.kind = "errors")
        => result.errors =
             SelectSeq(result.unfiltered, LAMBDA e : e.filePath = call.filePath)

\* Each edit ends where the next starts, or before.
NonOverlapping(edits) ==
    \A i \in 1..(Len(edits) - 1) :
        edits[i].start + edits[i].length <= edits[i + 1].start

\* The text from position pos on with the edits from the i-th on spliced in.
RECURSIVE Splice(_, _, _, _)
Splice(text, edits, i, pos) ==
    IF i > Len(edits) THEN SubSeq(text, pos + 1, Len(text))
    ELSE SubSeq(text, pos + 1, edits[i].start)
         \o edits[i].newText
         \o Splice(text, edits, i + 1, edits[i].start + edits[i].length)

\* C6: with no edits formatCode returns the text, and with edits inside the
\* text, each ending where the next starts or before, it returns the text
\* with every edit's span, taken in the original text, replaced by the
\* edit's new text.
C6_FormatCode ==
    pc = "done" =>
        /\ changes = <<>> => formatted = orig
        /\ NonOverlapping(changes) => formatted = Splice(orig, changes, 1, 0)

\* Two edits, the first changing the length of the text, so that applying
\* them from the first to the last would misplace the second.
C6_Witness ==
    /\ pc = "done"
    /\ Len(changes) = 2
    /\ NonOverlapping(changes)
    /\ changes[1].length # Len(changes[1].newText)
    /\ formatted = Splice(orig, changes, 1, 0)
    /\ formatted # formatCodeForward(orig, changes)

\* C7 as claimed: emitFile of a declaration file ('.d.ts') returns the
\* produced output names and the file itself, of any other file exactly the
\* produced output names.
C7_AsClaimed ==
    (pc = "done" /\ call.op = "emitFile" /\ result.kind = "emit") =>
        result.value.outputFiles =
            IF IsDeclaration(call.filePath)
            THEN Append(result.output.outputFiles, call.filePath)
            ELSE result.output.outputFiles

\* C8: while the constructor expands the project nothing has been emitted,
\* emitting starts on the expanded file list, and when the constructor has
\* returned every file of the project was emitted exactly once.
C8_EmitAfterClosure ==
    /\ (pc = "scan" => cur.emitted = <<>>)
    /\ \A program \in Started :
         program.emitted # <<>> =>
            /\ Range(program.files) = Closure(Range(program.initial))
            /\ Range(program.emitted) \subseteq Range(program.files)
    /\ \A program \in Stored :
         \A f \in Disk :
            Count(program.emitted, f) = IF f \in Range(program.files) THEN 1 ELSE 0

\* A stored Program with files found by the expansion, all emitted.
C8_Witness ==
    \E program \in Stored :
        /\ Len(program.files) > Len(program.initial)
        /\ Len(program.emitted) = Len(program.files)

\* C9: every stored Program has a file list closed under references and
\* relative imports and was emitted over all of it; while a constructor runs,
\* and after it threw, the cache has no entry for its root.
C9_OnlyConstructed ==
    /\ \A program \in Stored :
         /\ \A f \in Range(program.files) :
              Range(FilesNamedBy(content, f)) \subseteq Range(program.files)
         /\ Range(program.files) \subseteq Range(program.emitted)
         /\ program.id > 0
    /\ (pc \in {"scan", "emit"} => programs[cur.dir] = NoProgram)
    /\ (ConstructorThrew => programs[call.dir] = NoProgram)

\* A constructor threw in its emit pass while another root has a Program.
C9_Witness ==
    /\ ConstructorThrew
    /\ result.from = "writeFileSync"
    /\ Stored # {}

\* C10 as claimed: the Program getOrCreateProgram(f) returns has f among the
\* scripts of its host.
C10_AsClaimed ==
    (pc = "done" /\ call.op = "getOrCreateProgram" /\ result.kind = "program")
        => hasScript(result.program.scripts, call.filePath)

====
